---- MODULE Spec2Model ----
(***************************************************************************)
(* Event-log assembly of scalingsnapshots' log parser (sslogs):            *)
(*   - pypi.write_logs: initial query, merge of the upload and download    *)
(*     query results (_run_up_down_query), goodbye post-processing;        *)
(*   - goodbye.goodbyeify: two reverse passes over a staging file;         *)
(*   - goodbye._reverse_readline: block-wise reverse line reader;          *)
(*   - goodbye.main and pypi.main: the files a run creates and removes;    *)
(*   - generate_package_data.PackageData: the aggregator of downloads;     *)
(*   - hackage.process: the members of an index archive grouped by release; *)
(*   - trim: the logs cut down to the most common packages;                *)
(*   - package-data.py: the script form of the aggregator.                 *)
(*                                                                         *)
(* A file is a sequence of characters; a character is a one-character      *)
(* string.  A serialized event is a line whose fields are written one      *)
(* character each, so a block boundary of _reverse_readline can fall       *)
(* between any two fields of a line.                                       *)
(***************************************************************************)
EXTENDS Integers, Sequences, FiniteSets, TLC

VARIABLES
    initial_rows,    \* rows of the initial query (package names, or null)
    initial_pos,     \* rows of the initial query consumed so far
    initial_seen,    \* _run_initial_query: seen
    initial_output,  \* file: --initial-output
    upload_rows,     \* rows of the upload query, in result order
    download_rows,   \* rows of the download query, in result order
    upload_pos,      \* rows pulled from upload_iter so far
    download_pos,    \* rows pulled from download_iter so far
    next_upload,     \* _run_up_down_query: next_upload (a row or None)
    next_download,   \* _run_up_down_query: next_download (a row or None)
    merged,          \* the entries _run_up_down_query has yielded, in order
    unprocessed,     \* file: tmpdir / "unprocessed.jsonl"
    mpc,             \* position of the generator _run_up_down_query
    wpc,             \* position of write_logs
    input,           \* file: the input of goodbyeify
    buf_size,        \* _reverse_readline: buf_size
    pending,         \* lines the open _reverse_readline generator has yet to yield
    tmpfile,         \* file: the staging file of goodbyeify
    seen,            \* goodbyeify: seen
    output,          \* file: --output
    gpc,             \* position of goodbyeify
    round,           \* number of reversals started on the file under test
    fs,              \* which files and directories of a run exist on disk
    main,            \* position of main (goodbye.main or pypi.main)
    agg_lines,       \* the download lines given to the aggregator
    agg_pos,         \* lines the aggregator has handled so far
    agg_pc,          \* position of PackageData.handle_downloads
    data,            \* the fields of the PackageData object
    archive,         \* members of the hackage index archive, in archive order
    hk_log,          \* the list hackage.process returned
    hk_pc,           \* position of hackage.process
    input_initial,   \* file: trim's --input-initial
    input_events,    \* file: trim's --input-events
    num_packages,    \* trim: num_packages (None or a number)
    num_entries,     \* trim: num_entries (None or a number)
    top,             \* trim: top
    output_initial,  \* file: trim's --output-initial
    output_events,   \* file: trim's --output-events
    trim_pos,        \* lines the running loop of trim has read
    trim_written,    \* entries the islice of line 42 has let through
    tpc,             \* position of trim
    pd_data,         \* the fields of the PackageData object of package-data.py
    pd_pos,          \* downloads given to parse_line so far
    pd_pc            \* position of the script package-data.py

vars == <<initial_rows, initial_pos, initial_seen, initial_output,
          upload_rows, download_rows, upload_pos, download_pos,
          next_upload, next_download, merged, unprocessed, mpc, wpc,
          input, buf_size, pending, tmpfile, seen, output, gpc, round,
          fs, main, agg_lines, agg_pos, agg_pc, data, archive, hk_log, hk_pc,
          input_initial, input_events, num_packages, num_entries, top,
          output_initial, output_events, trim_pos, trim_written, tpc,
          pd_data, pd_pos, pd_pc>>

mergeVars == <<initial_rows, initial_pos, initial_seen, initial_output,
               upload_rows, download_rows, upload_pos, download_pos,
               next_upload, next_download, merged, unprocessed, mpc, wpc>>

\* the state of trim
trimVars == <<input_initial, input_events, num_packages, num_entries, top,
              output_initial, output_events, trim_pos, trim_written, tpc>>

\* the state of the script package-data.py
scriptVars == <<pd_data, pd_pos, pd_pc>>

\* the state of the aggregator (generate_package_data), of hackage.process,
\* of trim and of the script package-data.py
otherVars == <<agg_lines, agg_pos, agg_pc, data, archive, hk_log, hk_pc,
               trimVars, scriptVars>>

\* the state of the log assembly (pypi, goodbye and their mains)
logVars == <<mergeVars, input, buf_size, pending, tmpfile, seen, output,
             gpc, round, fs, main>>

hackageVars == <<archive, hk_log, hk_pc>>

----------------------------------------------------------------------------
(* Bounds of the model *)

MaxFileLen == 5      \* characters of a raw file given to _reverse_readline
MaxLogLen == 3       \* events of a log given to goodbye.main
MaxUp == 2           \* rows of the upload query
MaxDown == 2         \* rows of the download query
MaxInitial == 1      \* rows of the initial query
MaxPipeUp == 1       \* rows of the upload query, in a whole run of write_logs
MaxPipeDown == 2     \* rows of the download query, in a whole run of write_logs
MaxRawLen == 2       \* lines of an unchecked input file given to goodbye.main
MaxDls == 3          \* download lines given to the aggregator
MaxArchive == 3      \* members of the archive given to hackage.process
MaxInitialRows == 3  \* rows of the initial query, when it is studied alone
MaxTrimInitial == 2  \* lines of the initial-state file given to trim
MaxTrimEvents == 3   \* lines of the event file given to trim

BufSizes == {1, 2, 4, 5}   \* block sizes (buf_size, 8192 in the code, scaled down)

----------------------------------------------------------------------------
(* Sequences and files *)

NL == "\n"

None == [none |-> TRUE]

Min(a, b) == IF a < b THEN a ELSE b

RECURSIVE Flatten(_)
\* the characters written by: for line in ls: f.write(line + "\n")
Flatten(ls) ==
    IF ls = <<>> THEN <<>> ELSE Head(ls) \o <<NL>> \o Flatten(Tail(ls))

\* f.write(line + "\n")
WriteLine(file, line) == file \o line \o <<NL>>

RECURSIVE Split(_)
\* str.split("\n"): the pieces between the newlines, one more than newlines
Split(s) ==
    IF s = <<>> THEN << <<>> >>
    ELSE IF Head(s) = NL THEN << <<>> >> \o Split(Tail(s))
    ELSE LET r == Split(Tail(s))
         IN  << <<Head(s)>> \o Head(r) >> \o Tail(r)

\* the lines of a file: every line is ended by a newline, the last one
\* possibly by the end of the file
FileLines(s) ==
    LET p == Split(s)
    IN  IF p[Len(p)] = <<>> THEN SubSeq(p, 1, Len(p) - 1) ELSE p

----------------------------------------------------------------------------
(* goodbye._reverse_readline *)

RECURSIVE YieldNonEmpty(_, _)
\* for index in range(len(lines) - 1, 0, -1): if lines[index]: yield lines[index]
YieldNonEmpty(lines, index) ==
    IF index < 2 THEN <<>>
    ELSE (IF lines[index] # <<>> THEN << lines[index] >> ELSE <<>>)
         \o YieldNonEmpty(lines, index - 1)

RECURSIVE ReadBlocks(_, _, _, _, _)
\* the while loop: the lines yielded from the state (segment, offset,
\* remaining_size) on; segment is None or [s |-> the saved fragment]
ReadBlocks(content, bs, segment, offset, remaining_size) ==
    LET file_size == Len(content) IN
    IF remaining_size <= 0
    THEN (IF segment # None THEN << segment.s >> ELSE <<>>)
    ELSE
      LET off    == Min(file_size, offset + bs)
          start  == file_size - off
          buffer == SubSeq(content, start + 1, start + Min(remaining_size, bs))
          lines0 == Split(buffer)
          join   == segment # None /\ buffer[Len(buffer)] # NL
          lines  == IF join
                    THEN [lines0 EXCEPT ![Len(lines0)] = @ \o segment.s]
                    ELSE lines0
          first  == IF segment # None /\ ~join THEN << segment.s >> ELSE <<>>
      IN  first \o YieldNonEmpty(lines, Len(lines))
          \o ReadBlocks(content, bs, [s |-> lines[1]], off, remaining_size - bs)

\* _reverse_readline(filename, buf_size): the lines it yields, in order
reverse_readline(content, bs) == ReadBlocks(content, bs, None, 0, Len(content))

----------------------------------------------------------------------------
(* The serialized form of an event (logs.LogEntry.to_dict + json.dumps):    *)
(* the action tag, the action's fields, the formatted timestamp.            *)

Users == {"u", "v"}          \* user ids as they appear in a log
Secs == {1, 2}               \* whole seconds of the timestamps
Packages == {"a"}            \* canonical package ids of a log

\* timestamp.strftime("%Y-%m-%d %H:%M:%S.0 %z"): the sub-second part is
\* written as the constant ".0"
FormatTimestamp(ts) == ToString(ts.sec)

\* the second a formatted timestamp names
TimestampSec(c) == CHOOSE n \in 0..9 : ToString(n) = c

\* json.dumps(entry.to_dict()) as a line
EntryLine(e) ==
    IF e.action.tag = "Download"
    THEN <<"D", e.action.user, e.action.package, FormatTimestamp(e.timestamp)>>
    ELSE <<"P", e.action.package, FormatTimestamp(e.timestamp)>>

DownloadLine(u, p, t) == <<"D", u, p, t>>
RefreshLine(u, t) == <<"R", u, t>>
PublishLine(p, t) == <<"P", p, t>>
GoodbyeLine(u, t) == <<"G", u, t>>

\* json.loads(line), as far as goodbyeify reads it
\* line 59 reading any action that names a user as a Download
IsDownloadOrRefresh(line) == line[1] \in {"D", "R"}

IsDownload(line) == line[1] = "D"       \* "Download" in action
LineUser(line) == line[2]               \* action[...]["user"]
LineTimestamp(line) == line[Len(line)]  \* parsed["timestamp"]

----------------------------------------------------------------------------
(* goodbye.goodbyeify *)

\* line 59 with the mark dropped: every Download gets a Goodbye
NeedsGoodbyeEveryDownload(line, sn) == IsDownload(line)

\* line 59: "Download" in action and action["Download"]["user"] not in seen
NeedsGoodbye(line, sn) == IsDownload(line) /\ LineUser(line) \notin sn

\* lines 61-62: the deep copy of the parsed line with its action replaced
Synthesized(line) == GoodbyeLine(LineUser(line), LineTimestamp(line))

\* lines 63, 66 in the wrong order: the Goodbye after the passed-through line
Pass1WriteAfter(file, line, sn) ==
    IF NeedsGoodbye(line, sn)
    THEN WriteLine(WriteLine(file, line), Synthesized(line))
    ELSE WriteLine(file, line)

\* lines 59-66: what one line of pass 1 adds to the staging file
Pass1Write(file, line, sn) ==
    IF NeedsGoodbye(line, sn)
    THEN WriteLine(WriteLine(file, Synthesized(line)), line)
    ELSE WriteLine(file, line)

\* line 56: json.loads accepts the line.  Text that is not JSON is written
\* "?" in the model; the empty string is not JSON either.
ParsesAsJson(line) == line # <<>> /\ line[1] # "?"

\* lines 56-57: json.loads(line) and parsed["action"] both succeed.  Nothing
\* else of the line is looked at: neither the tag of the action (beyond the
\* test for "Download" of line 59) nor the timestamp.
Decodes(line) == ParsesAsJson(line)

\* what the failure of goodbyeify means for its caller write_logs (which
\* does not catch it)
RaisedIn(w) == IF w = "goodbye" THEN "error" ELSE w

\* lines 52-54: the staging file is opened for writing (truncated) and the
\* reverse reader of the input is started
GoodbyeOpen ==
    /\ gpc = "start"
    /\ tmpfile' = <<>>
    /\ seen' = {}
    /\ pending' = reverse_readline(input, buf_size)
    /\ gpc' = "pass1"
    /\ UNCHANGED <<input, buf_size, output, round>>
    /\ UNCHANGED mergeVars
    /\ fs' = [fs EXCEPT !.staging = TRUE]
    /\ UNCHANGED main
    /\ UNCHANGED otherVars

\* the first loop writing the line it passes through to the output as well
Pass1OutputEager(out, line) == WriteLine(out, line)

\* lines 63 and 66 write to tmpfile: the first loop leaves the output as it is
Pass1Output(out, line) == out

\* lines 54-66: one iteration of the first loop
Pass1Step ==
    /\ gpc = "pass1"
    /\ pending # <<>>
    /\ Decodes(Head(pending))
    /\ LET line == Head(pending) IN
         /\ tmpfile' = Pass1Write(tmpfile, line, seen)
         /\ seen' = IF NeedsGoodbye(line, seen)
                    THEN seen \cup {LineUser(line)} ELSE seen
         /\ output' = Pass1Output(output, line)
    /\ pending' = Tail(pending)
    /\ UNCHANGED <<input, buf_size, gpc, round>>
    /\ UNCHANGED mergeVars
    /\ UNCHANGED <<fs, main>>
    /\ UNCHANGED otherVars

\* lines 56-57: json.loads or the lookup of "action" raises; the exception
\* leaves goodbyeify
Pass1DecodeError ==
    /\ gpc = "pass1"
    /\ pending # <<>>
    /\ ~Decodes(Head(pending))
    /\ gpc' = "error"
    /\ wpc' = RaisedIn(wpc)
    /\ UNCHANGED <<input, buf_size, pending, tmpfile, seen, output, round>>
    /\ UNCHANGED <<initial_rows, initial_pos, initial_seen, initial_output,
                   upload_rows, download_rows, upload_pos, download_pos,
                   next_upload, next_download, merged, unprocessed, mpc>>
    /\ UNCHANGED <<fs, main>>
    /\ UNCHANGED otherVars

\* lines 54-71: a read of the input or of the staging file, or a write to
\* the staging file or to the output, raises OSError in either loop
GoodbyeIOFail ==
    /\ gpc \in {"pass1", "pass2"}
    /\ gpc' = "error"
    /\ wpc' = RaisedIn(wpc)
    /\ UNCHANGED <<input, buf_size, pending, tmpfile, seen, output, round>>
    /\ UNCHANGED <<initial_rows, initial_pos, initial_seen, initial_output,
                   upload_rows, download_rows, upload_pos, download_pos,
                   next_upload, next_download, merged, unprocessed, mpc>>
    /\ UNCHANGED <<fs, main>>
    /\ UNCHANGED otherVars

\* line 70 reading the staging file from its start, front to back
SecondPassForward(file, bs) == FileLines(file)

\* line 70: the lines the second loop gets from the staging file
SecondPassLines(file, bs) == reverse_readline(file, bs)

\* lines 68-70: the first loop is over, the staging file is closed and
\* opened again for the second reverse pass
Pass1End ==
    /\ gpc = "pass1"
    /\ pending = <<>>
    /\ pending' = SecondPassLines(tmpfile, buf_size)
    /\ gpc' = "pass2"
    /\ UNCHANGED <<input, buf_size, tmpfile, seen, output, round>>
    /\ UNCHANGED mergeVars
    /\ UNCHANGED <<fs, main>>
    /\ UNCHANGED otherVars

\* lines 70-71: one iteration of the second loop
Pass2Step ==
    /\ gpc = "pass2"
    /\ pending # <<>>
    /\ output' = WriteLine(output, Head(pending))
    /\ pending' = Tail(pending)
    /\ UNCHANGED <<input, buf_size, tmpfile, seen, gpc, round>>
    /\ UNCHANGED mergeVars
    /\ UNCHANGED <<fs, main>>
    /\ UNCHANGED otherVars

\* the second loop is over: goodbyeify returns
Pass2End ==
    /\ gpc = "pass2"
    /\ pending = <<>>
    /\ gpc' = "done"
    /\ wpc' = IF wpc = "goodbye" THEN "done" ELSE wpc
    /\ UNCHANGED <<input, buf_size, pending, tmpfile, seen, output, round>>
    /\ UNCHANGED <<initial_rows, initial_pos, initial_seen, initial_output,
                   upload_rows, download_rows, upload_pos, download_pos,
                   next_upload, next_download, merged, unprocessed, mpc>>
    /\ UNCHANGED <<fs, main>>
    /\ UNCHANGED otherVars

----------------------------------------------------------------------------
(* goodbye.main and pypi.main: the files of a run *)

\* args.add_common_args: argparse opens --output with FileType("w") while it
\* parses the command line, which creates (or truncates) the file at the
\* output path itself
ParseArgs ==
    /\ main = "parse"
    /\ fs' = [fs EXCEPT !.out_file = TRUE]
    /\ output' = <<>>
    /\ main' = "parsed"
    /\ UNCHANGED <<input, buf_size, pending, tmpfile, seen, gpc, round>>
    /\ UNCHANGED mergeVars
    /\ UNCHANGED otherVars

\* goodbye.main, lines 76-78: the TemporaryDirectory is entered and
\* goodbyeify is called with a path inside it
GoodbyeMainEnter ==
    /\ main = "parsed"
    /\ fs' = [fs EXCEPT !.tmpdir = TRUE]
    /\ main' = "running"
    /\ gpc' = "start"
    /\ UNCHANGED <<input, buf_size, pending, tmpfile, seen, output, round>>
    /\ UNCHANGED mergeVars
    /\ UNCHANGED otherVars

\* a with block that removes the directory only when its body ended normally
ExitCleanupOnSuccess(f, ok) ==
    IF ok THEN [f EXCEPT !.tmpdir = FALSE, !.staging = FALSE] ELSE f

\* TemporaryDirectory.__exit__: the directory and all it holds are removed,
\* whether the body of the with block returned or raised
ExitCleanup(f, ok) == [f EXCEPT !.tmpdir = FALSE, !.staging = FALSE]

\* goodbye.main, line 76: the with block is left, by return or by exception
GoodbyeMainExit ==
    /\ main = "running"
    /\ wpc = "idle"
    /\ gpc \in {"done", "error"}
    /\ fs' = ExitCleanup(fs, gpc = "done")
    /\ main' = IF gpc = "done" THEN "exited" ELSE "failed"
    /\ UNCHANGED <<input, buf_size, pending, tmpfile, seen, output, gpc, round>>
    /\ UNCHANGED mergeVars
    /\ UNCHANGED otherVars

\* pypi.main, line 210: the with block is left, by return or by exception
PypiMainExit ==
    /\ main = "running"
    /\ wpc \in {"done", "error"}
    /\ fs' = ExitCleanup(fs, wpc = "done")
    /\ main' = IF wpc = "done" THEN "exited" ELSE "failed"
    /\ UNCHANGED <<input, buf_size, pending, tmpfile, seen, output, gpc, round>>
    /\ UNCHANGED mergeVars
    /\ UNCHANGED otherVars

----------------------------------------------------------------------------
(* pypi: rows of the query results and the entries made from them *)

Null == "<null>"             \* a NULL column of a row (Python None)

\* datetime comparison
TsLess(a, b) == a.sec < b.sec \/ (a.sec = b.sec /\ a.us < b.us)
TsLeq(a, b) == a = b \/ TsLess(a, b)

ReplaceChar(p, from, to) == IF p = from THEN to ELSE p
Lower(p) == IF p = "A" THEN "a" ELSE IF p = "B" THEN "b" ELSE p

\* _canonicalize_package, on one-character package names
Canonicalize(p) == Lower(ReplaceChar(ReplaceChar(p, "_", "-"), ".", "-"))

\* base64.b64encode(row[1]).decode("ascii"), on the digests of the model
B64Encode(h) == IF h = "h" THEN "u" ELSE "v"

\* lines 150-159: the entry of a download row, None for a NULL project
DownloadEntry(row) ==
    IF row.project # Null
    THEN [timestamp |-> row.ts,
          action |-> [tag |-> "Download", user |-> B64Encode(row.user),
                      package |-> Canonicalize(row.project)]]
    ELSE None

\* lines 165-173: the entry of an upload row, None for a NULL name; the
\* Package is built from next_upload[1], not from the canonicalized name
UploadEntry(row) ==
    IF row.name # Null
    THEN [timestamp |-> row.ts,
          action |-> [tag |-> "Publish", package |-> row.name]]
    ELSE None

\* lines 147-149 with the comparison turned round
TakeDownloadLater(nu, nd) == nu = None \/ (nd # None /\ TsLess(nu.ts, nd.ts))

\* lines 147-149 with <= for <
TakeDownloadOnTie(nu, nd) == nu = None \/ (nd # None /\ TsLeq(nd.ts, nu.ts))

\* lines 147-149: the download head is taken next
TakeDownload(nu, nd) == nu = None \/ (nd # None /\ TsLess(nd.ts, nu.ts))

\* next(it) called twice, the first row dropped
NextOrNoneSkipping(rows, pos) == IF pos + 1 < Len(rows) THEN rows[pos + 2] ELSE None

\* lines 160-163, 174-177: next(it), None on StopIteration
NextOrNone(rows, pos) == IF pos < Len(rows) THEN rows[pos + 1] ELSE None

\* rows of a producer consumed by the loop: pulled and no longer the head
Consumed(pos, head) == pos - (IF head # None THEN 1 ELSE 0)

----------------------------------------------------------------------------
(* pypi._run_up_down_query, driven by the loop of write_logs that writes    *)
(* every yielded entry to the file unprocessed                              *)

\* lines 126-137: both queries are issued and the first row of each result
\* is pulled with a bare next(): on an empty result next() raises
\* StopIteration, which leaves the generator as a RuntimeError (PEP 479)
MergeStart ==
    /\ wpc = "merge"
    /\ mpc = "start"
    /\ IF upload_rows = <<>>
       THEN /\ mpc' = "raised"
            /\ wpc' = "error"
            /\ UNCHANGED <<upload_pos, download_pos, next_upload, next_download>>
       ELSE IF download_rows = <<>>
       THEN /\ mpc' = "raised"
            /\ wpc' = "error"
            /\ upload_pos' = 1
            /\ next_upload' = upload_rows[1]
            /\ UNCHANGED <<download_pos, next_download>>
       ELSE /\ mpc' = "loop"
            /\ upload_pos' = 1
            /\ next_upload' = upload_rows[1]
            /\ download_pos' = 1
            /\ next_download' = download_rows[1]
            /\ UNCHANGED wpc
    /\ UNCHANGED <<initial_rows, initial_pos, initial_seen, initial_output,
                   upload_rows, download_rows, merged, unprocessed>>
    /\ UNCHANGED <<input, buf_size, pending, tmpfile, seen, output, gpc, round>>
    /\ UNCHANGED <<fs, main>>
    /\ UNCHANGED otherVars

\* lines 142-179 and 199-200: one iteration of the loop that takes a head,
\* and the write of the entry it yields
MergeStep ==
    /\ wpc = "merge"
    /\ mpc = "loop"
    /\ ~(next_download = None /\ next_upload = None)
    /\ LET down  == TakeDownload(next_upload, next_download)
           entry == IF down THEN DownloadEntry(next_download)
                            ELSE UploadEntry(next_upload)
       IN  /\ IF down
              THEN /\ next_download' = NextOrNone(download_rows, download_pos)
                   /\ download_pos' = Min(download_pos + 1, Len(download_rows))
                   /\ UNCHANGED <<next_upload, upload_pos>>
              ELSE /\ next_upload' = NextOrNone(upload_rows, upload_pos)
                   /\ upload_pos' = Min(upload_pos + 1, Len(upload_rows))
                   /\ UNCHANGED <<next_download, download_pos>>
           /\ IF entry # None
              THEN /\ merged' = Append(merged, entry)
                   /\ unprocessed' = WriteLine(unprocessed, EntryLine(entry))
              ELSE UNCHANGED <<merged, unprocessed>>
    /\ UNCHANGED <<initial_rows, initial_pos, initial_seen, initial_output,
                   upload_rows, download_rows, mpc, wpc>>
    /\ UNCHANGED <<input, buf_size, pending, tmpfile, seen, output, gpc, round>>
    /\ UNCHANGED <<fs, main>>
    /\ UNCHANGED otherVars

\* lines 145-146: both heads are None, the generator returns; the for loop
\* of write_logs ends and the file unprocessed is closed
MergeBreak ==
    /\ wpc = "merge"
    /\ mpc = "loop"
    /\ next_download = None /\ next_upload = None
    /\ mpc' = "done"
    /\ wpc' = "merged"
    /\ UNCHANGED <<initial_rows, initial_pos, initial_seen, initial_output,
                   upload_rows, download_rows, upload_pos, download_pos,
                   next_upload, next_download, merged, unprocessed>>
    /\ UNCHANGED <<input, buf_size, pending, tmpfile, seen, output, gpc, round>>
    /\ UNCHANGED <<fs, main>>
    /\ UNCHANGED otherVars

\* a query or a next() of the merge fails (the producer raises): the error
\* leaves the generator and the loop of write_logs
ProducerFail ==
    /\ wpc = "merge"
    /\ \/ mpc = "start"
       \/ mpc = "loop" /\ ~(next_download = None /\ next_upload = None)
    /\ mpc' = "raised"
    /\ wpc' = "error"
    /\ UNCHANGED <<initial_rows, initial_pos, initial_seen, initial_output,
                   upload_rows, download_rows, upload_pos, download_pos,
                   next_upload, next_download, merged, unprocessed>>
    /\ UNCHANGED <<input, buf_size, pending, tmpfile, seen, output, gpc, round>>
    /\ UNCHANGED <<fs, main>>
    /\ UNCHANGED otherVars

----------------------------------------------------------------------------
(* pypi.write_logs around the merge *)

StartTime == [sec |-> 1, us |-> 0]   \* args.start

\* lines 114-117: the entry of a row of the initial query
InitialEntryLater(package) ==
    [timestamp |-> [sec |-> 2, us |-> 0],
     action |-> [tag |-> "Publish", package |-> package]]

\* lines 114-117: the entry yielded for a package not seen before
InitialEntry(package) ==
    [timestamp |-> StartTime, action |-> [tag |-> "Publish", package |-> package]]

\* lines 107-117 and 192-193: one row of the initial query, and the write of
\* the entry it yields
InitialStep ==
    /\ wpc = "initial"
    /\ initial_pos < Len(initial_rows)
    /\ initial_pos' = initial_pos + 1
    /\ LET row == initial_rows[initial_pos + 1]
           package == Canonicalize(row)
       IN  IF row # Null /\ package \notin initial_seen
           THEN /\ initial_seen' = initial_seen \cup {package}
                /\ initial_output' =
                       WriteLine(initial_output, EntryLine(InitialEntry(package)))
           ELSE UNCHANGED <<initial_seen, initial_output>>
    /\ UNCHANGED <<initial_rows, upload_rows, download_rows, upload_pos,
                   download_pos, next_upload, next_download, merged,
                   unprocessed, mpc, wpc>>
    /\ UNCHANGED <<input, buf_size, pending, tmpfile, seen, output, gpc, round>>
    /\ UNCHANGED <<fs, main>>
    /\ UNCHANGED otherVars

\* lines 194-199: the initial state is written, the file unprocessed is
\* opened and the merge is started
InitialEnd ==
    /\ wpc = "initial"
    /\ initial_pos = Len(initial_rows)
    /\ wpc' = "merge"
    /\ mpc' = "start"
    /\ unprocessed' = <<>>
    /\ UNCHANGED <<initial_rows, initial_pos, initial_seen, initial_output,
                   upload_rows, download_rows, upload_pos, download_pos,
                   next_upload, next_download, merged>>
    /\ UNCHANGED <<input, buf_size, pending, tmpfile, seen, output, gpc, round>>
    /\ UNCHANGED <<fs, main>>
    /\ UNCHANGED otherVars

\* the initial query or its iteration fails
InitialFail ==
    /\ wpc = "initial"
    /\ wpc' = "error"
    /\ UNCHANGED <<initial_rows, initial_pos, initial_seen, initial_output,
                   upload_rows, download_rows, upload_pos, download_pos,
                   next_upload, next_download, merged, unprocessed, mpc>>
    /\ UNCHANGED <<input, buf_size, pending, tmpfile, seen, output, gpc, round>>
    /\ UNCHANGED <<fs, main>>
    /\ UNCHANGED otherVars

\* post-processing run whatever the outcome of the merge (as in a finally)
PostProcessAlways(w) == w \in {"merged", "error"}

\* lines 202-204 are reached when the with block of the merge ended normally
PostProcessReached(w) == w = "merged"

\* lines 202-204: goodbyeify is called on the file unprocessed
PostProcess ==
    /\ PostProcessReached(wpc)
    /\ gpc = "idle"
    /\ wpc' = "goodbye"
    /\ input' = unprocessed
    /\ gpc' = "start"
    /\ UNCHANGED <<initial_rows, initial_pos, initial_seen, initial_output,
                   upload_rows, download_rows, upload_pos, download_pos,
                   next_upload, next_download, merged, unprocessed, mpc>>
    /\ UNCHANGED <<buf_size, pending, tmpfile, seen, output, round>>
    /\ UNCHANGED <<fs, main>>
    /\ UNCHANGED otherVars

----------------------------------------------------------------------------
(* The states in which nothing of write_logs has run *)

\* trim is not part of the run
TrimIdle ==
    /\ input_initial = <<>> /\ input_events = <<>>
    /\ num_packages = None /\ num_entries = None /\ top = {}
    /\ output_initial = <<>> /\ output_events = <<>>
    /\ trim_pos = 0 /\ trim_written = 0 /\ tpc = "idle"

\* the aggregator, hackage.process, trim and the script package-data.py
\* are not part of the run
OtherIdle ==
    /\ agg_lines = <<>> /\ agg_pos = 0 /\ agg_pc = "idle" /\ data = None
    /\ archive = <<>> /\ hk_log = <<>> /\ hk_pc = "idle"
    /\ TrimIdle
    /\ pd_data = None /\ pd_pos = 0 /\ pd_pc = "idle"

\* no file of a run of main is on disk
NoFiles == [tmpdir |-> FALSE, staging |-> FALSE, out_file |-> FALSE]

\* the function under study is called directly, not from a main
CalledDirectly == fs = NoFiles /\ main = "idle"

MergeIdle ==
    /\ initial_rows = <<>> /\ initial_pos = 0 /\ initial_seen = {}
    /\ initial_output = <<>>
    /\ upload_rows = <<>> /\ download_rows = <<>>
    /\ upload_pos = 0 /\ download_pos = 0
    /\ next_upload = None /\ next_download = None
    /\ merged = <<>> /\ unprocessed = <<>>
    /\ mpc = "idle" /\ wpc = "idle"

----------------------------------------------------------------------------
(* SpecReverse: lines 69-71 of goodbyeify (reverse the lines of a file and  *)
(* write them out one per line) applied to an arbitrary file, and applied   *)
(* again to what the first application wrote.                               *)

FileChars == {"a", "b", NL}

RawFiles == UNION {[1..n -> FileChars] : n \in 0..MaxFileLen}

InitReverse ==
    /\ MergeIdle
    /\ input \in RawFiles
    /\ buf_size \in BufSizes
    /\ tmpfile = input
    /\ pending = reverse_readline(input, buf_size)
    /\ seen = {}
    /\ output = <<>>
    /\ gpc = "pass2"
    /\ round = 1
    /\ CalledDirectly /\ OtherIdle

\* the file written by the first application is reversed in its turn
ReverseAgain ==
    /\ gpc = "done"
    /\ round = 1
    /\ round' = 2
    /\ tmpfile' = output
    /\ pending' = reverse_readline(output, buf_size)
    /\ output' = <<>>
    /\ gpc' = "pass2"
    /\ UNCHANGED <<input, buf_size, seen>>
    /\ UNCHANGED mergeVars
    /\ UNCHANGED <<fs, main>>
    /\ UNCHANGED otherVars

NextReverse == Pass2Step \/ Pass2End \/ ReverseAgain

SpecReverse == InitReverse /\ [][NextReverse]_vars

----------------------------------------------------------------------------
(* SpecGoodbye: goodbye.main on a log of Download, RefreshMetadata and      *)
(* Publish events that is non-decreasing by timestamp.                      *)

FormattedSecs == {ToString(n) : n \in Secs}

EventLines ==
    {DownloadLine(u, p, t) : u \in Users, p \in Packages, t \in FormattedSecs}
    \cup {RefreshLine(u, t) : u \in Users, t \in FormattedSecs}
    \cup {PublishLine(p, t) : p \in Packages, t \in FormattedSecs}

\* a sequence of lines is non-decreasing by timestamp
LinesSorted(ls) ==
    \A i \in 1..(Len(ls) - 1) :
        TimestampSec(LineTimestamp(ls[i])) <= TimestampSec(LineTimestamp(ls[i + 1]))

Logs ==
    {l \in UNION {[1..n -> EventLines] : n \in 0..MaxLogLen} : LinesSorted(l)}

InitGoodbye ==
    /\ MergeIdle
    /\ input \in {Flatten(l) : l \in Logs}
    /\ buf_size \in BufSizes
    /\ tmpfile = <<>>
    /\ pending = <<>>
    /\ seen = {}
    /\ output = <<>>
    /\ gpc = "start"
    /\ round = 0
    /\ CalledDirectly /\ OtherIdle

NextGoodbye == GoodbyeOpen \/ Pass1Step \/ Pass1End \/ Pass2Step \/ Pass2End

SpecGoodbye == InitGoodbye /\ [][NextGoodbye]_vars

----------------------------------------------------------------------------
(* Reading a log back, for the properties below *)

InLines == FileLines(input)
OutLines == FileLines(output)

\* the places of the lines of ls with this action tag and this user
Positions(ls, tag, u) == {i \in 1..Len(ls) : ls[i][1] = tag /\ ls[i][2] = u}

SetMax(S) == CHOOSE m \in S : \A x \in S : x <= m

NotGoodbye(line) == line[1] # "G"

\* the place in ls of its k-th line that is not a Goodbye
PlaceOfInput(ls, k) ==
    CHOOSE i \in 1..Len(ls) :
        /\ NotGoodbye(ls[i])
        /\ Cardinality({j \in 1..i : NotGoodbye(ls[j])}) = k

----------------------------------------------------------------------------
(* Properties of goodbyeify (SpecGoodbye) *)

\* C6: the output of goodbyeify never holds more than one Goodbye event of a
\* user, and the finished output holds exactly one Goodbye event for every
\* user that has at least one Download event in the input.
C6_ExactlyOneGoodbye ==
    \A u \in Users :
        /\ Cardinality(Positions(OutLines, "G", u)) <= 1
        /\ (gpc = "done" /\ Positions(InLines, "D", u) # {})
               => Cardinality(Positions(OutLines, "G", u)) = 1

C6_Witness ==
    /\ gpc = "done"
    /\ \E u \in Users : Cardinality(Positions(InLines, "D", u)) >= 2
    /\ \A u \in Users : Positions(InLines, "D", u) # {}

\* C7: for every user U with a Download in the input, the line right after
\* U's last Download in the finished output is Goodbye(U) with that
\* Download's timestamp; every input event that followed that Download comes
\* after the Goodbye; and no Goodbye(U) precedes a Download of U.
C7_GoodbyePlacement ==
    gpc = "done" =>
      \A u \in Users :
        Positions(InLines, "D", u) # {} =>
          LET d  == SetMax(Positions(OutLines, "D", u))
              di == SetMax(Positions(InLines, "D", u))
          IN  /\ d + 1 <= Len(OutLines)
              /\ OutLines[d + 1] = <<"G", u, LineTimestamp(OutLines[d])>>
              /\ \A k \in (di + 1)..Len(InLines) :
                    PlaceOfInput(OutLines, k) > d + 1
              /\ \A g \in Positions(OutLines, "G", u) :
                    \A x \in Positions(OutLines, "D", u) : x < g

C7_Witness ==
    /\ gpc = "done"
    /\ \E u \in Users :
         /\ Cardinality(Positions(InLines, "D", u)) >= 2
         /\ LET di == SetMax(Positions(InLines, "D", u))
            IN  /\ di < Len(InLines)
                /\ LineTimestamp(InLines[di + 1]) = LineTimestamp(InLines[di])

\* C8: a user without a Download event in the input (one that appears only
\* in RefreshMetadata events, or not at all) has no Goodbye event in the
\* output of goodbyeify, at any time.
C8_NoGoodbyeWithoutDownload ==
    \A u \in Users :
        Positions(InLines, "D", u) = {} => Positions(OutLines, "G", u) = {}

C8_Witness ==
    /\ gpc = "done"
    /\ \E u \in Users :
         /\ Positions(InLines, "D", u) = {}
         /\ Positions(InLines, "R", u) # {}
    /\ \E u \in Users : Positions(OutLines, "G", u) # {}

\* C9: the finished output of goodbyeify without its Goodbye lines is the
\* input line sequence (every line once, unmodified, in order), and when the
\* input is non-decreasing by timestamp so is the output.
C9_InputPreserved ==
    gpc = "done" =>
        /\ SelectSeq(OutLines, NotGoodbye) = InLines
        /\ LinesSorted(InLines) => LinesSorted(OutLines)

C9_Witness ==
    /\ gpc = "done"
    /\ Len(InLines) >= 3
    /\ Len(OutLines) > Len(InLines)
    /\ LineTimestamp(InLines[1]) # LineTimestamp(InLines[Len(InLines)])
    /\ buf_size < Len(input)

----------------------------------------------------------------------------
(* Properties of _reverse_readline (SpecReverse) *)

\* C10: reversing a file's lines, writing them out one per line and
\* reversing the result again reproduces the original line sequence, for
\* every file and every block size.
C10_RoundTrip ==
    (round = 2 /\ gpc = "done") => FileLines(output) = FileLines(input)

\* a sequence back to front
ReverseSeq(ls) == [i \in 1..Len(ls) |-> ls[Len(ls) + 1 - i]]

\* C23: for every file and every block size, _reverse_readline yields
\* exactly the lines of the file in reverse order, each line once and whole
\* (seen here in what one reversal wrote, one yielded line per line).
C23_LinesInReverse ==
    (round = 1 /\ gpc = "done") =>
        FileLines(output) = ReverseSeq(FileLines(input))

----------------------------------------------------------------------------
(* SpecMerge: _run_up_down_query on two query results that are each         *)
(* non-decreasing by timestamp (ORDER BY), after an initial query without   *)
(* rows; the producers do not fail.                                         *)

Times == {[sec |-> 1, us |-> 0], [sec |-> 1, us |-> 5], [sec |-> 2, us |-> 0]}
Hashes == {"h"}
UploadNames == {"A", "a", Null}
DownloadProjects == {"_", Null}

UploadRow == [ts : Times, name : UploadNames]
DownloadRow == [ts : Times, user : Hashes, project : DownloadProjects]

RowsSorted(rows) ==
    \A i \in 1..(Len(rows) - 1) : TsLeq(rows[i].ts, rows[i + 1].ts)

SortedRows(Row, n) == {r \in UNION {[1..k -> Row] : k \in 0..n} : RowsSorted(r)}

GoodbyeIdle ==
    /\ input = <<>> /\ tmpfile = <<>> /\ pending = <<>> /\ seen = {}
    /\ output = <<>> /\ gpc = "idle" /\ round = 0

InitMerge ==
    /\ initial_rows = <<>> /\ initial_pos = 0 /\ initial_seen = {}
    /\ initial_output = <<>>
    /\ upload_rows \in SortedRows(UploadRow, MaxUp)
    /\ download_rows \in SortedRows(DownloadRow, MaxDown)
    /\ upload_pos = 0 /\ download_pos = 0
    /\ next_upload = None /\ next_download = None
    /\ merged = <<>> /\ unprocessed = <<>>
    /\ mpc = "start" /\ wpc = "merge"
    /\ GoodbyeIdle
    /\ buf_size = SetMax(BufSizes)
    /\ CalledDirectly /\ OtherIdle

NextMerge == MergeStart \/ MergeStep \/ MergeBreak

SpecMerge == InitMerge /\ [][NextMerge]_vars

----------------------------------------------------------------------------
(* Spec: pypi.write_logs as a whole; a query or a producer may fail.        *)

PipeTimes == {[sec |-> 1, us |-> 0], [sec |-> 2, us |-> 0]}
PipeBufSizes == {2, 5}

Init ==
    /\ initial_rows \in UNION {[1..k -> {"A", Null}] : k \in 0..MaxInitial}
    /\ initial_pos = 0 /\ initial_seen = {}
    /\ initial_output = <<>>
    /\ upload_rows \in SortedRows([ts : PipeTimes, name : {"a", Null}], MaxPipeUp)
    /\ download_rows \in
           SortedRows([ts : PipeTimes, user : {"h", "k"}, project : {"a"}], MaxPipeDown)
    /\ upload_pos = 0 /\ download_pos = 0
    /\ next_upload = None /\ next_download = None
    /\ merged = <<>> /\ unprocessed = <<>>
    /\ mpc = "idle" /\ wpc = "initial"
    /\ GoodbyeIdle
    /\ buf_size \in PipeBufSizes
    /\ fs = [tmpdir |-> TRUE, staging |-> FALSE, out_file |-> TRUE]
    /\ main = "running"
    /\ OtherIdle

Next ==
    \/ InitialStep \/ InitialEnd \/ InitialFail
    \/ MergeStart \/ MergeStep \/ MergeBreak \/ ProducerFail
    \/ PostProcess
    \/ GoodbyeOpen \/ Pass1Step \/ Pass1End \/ Pass2Step \/ Pass2End
    \/ GoodbyeIOFail \/ PypiMainExit

Spec == Init /\ [][Next]_vars

----------------------------------------------------------------------------
(* Properties of the merge (SpecMerge) *)

IsPublish(e) == e.action.tag = "Publish"
IsDownloadEntry(e) == e.action.tag = "Download"

RECURSIVE UploadEntries(_)
\* the entries of the upload rows that have one (a row with a NULL name has
\* no entry), in row order
UploadEntries(rows) ==
    IF rows = <<>> THEN <<>>
    ELSE (IF Head(rows).name # Null THEN << UploadEntry(Head(rows)) >> ELSE <<>>)
         \o UploadEntries(Tail(rows))

RECURSIVE DownloadEntries(_)
\* the entries of the download rows that have one, in row order
DownloadEntries(rows) ==
    IF rows = <<>> THEN <<>>
    ELSE (IF Head(rows).project # Null THEN << DownloadEntry(Head(rows)) >> ELSE <<>>)
         \o DownloadEntries(Tail(rows))

MergeOver == mpc \in {"done", "raised"}

\* C1: the sequence of entries yielded by the merge of two row sequences
\* that are each non-decreasing by timestamp is non-decreasing by timestamp.
C1_MergedSorted ==
    \A i \in 1..(Len(merged) - 1) :
        TsLeq(merged[i].timestamp, merged[i + 1].timestamp)

C1_Witness ==
    /\ mpc = "done"
    /\ \E i, j, k \in 1..Len(merged) :
         /\ i < j /\ j < k
         /\ IsPublish(merged[i]) /\ IsDownloadEntry(merged[j]) /\ IsPublish(merged[k])
         /\ TsLess(merged[i].timestamp, merged[j].timestamp)
         /\ TsLess(merged[j].timestamp, merged[k].timestamp)

\* C2: once the merge is over, its output holds the entry of every upload
\* row and of every download row exactly once, those of one producer in
\* that producer's order.
C2_MergeKeepsEveryRow ==
    MergeOver =>
        /\ SelectSeq(merged, IsPublish) = UploadEntries(upload_rows)
        /\ SelectSeq(merged, IsDownloadEntry) = DownloadEntries(download_rows)

\* C3: the merge of two finite producers, one of which may be empty from the
\* start, never raises: an exhausted producer is dropped and the other one
\* is drained.
C3_MergeNeverRaises ==
    /\ mpc # "raised"
    /\ mpc = "done" =>
          /\ Consumed(upload_pos, next_upload) = Len(upload_rows)
          /\ Consumed(download_pos, next_download) = Len(download_rows)

\* C4: while an upload and a download are both pending, a step of the merge
\* takes the download only when its timestamp is strictly smaller; on equal
\* timestamps it takes the upload and emits its Publish entry.
C4_UploadFirstOnTie ==
    [][(mpc = "loop" /\ next_upload # None /\ next_download # None) =>
          /\ (Consumed(download_pos, next_download)' =
                  Consumed(download_pos, next_download) + 1)
                 => TsLess(next_download.ts, next_upload.ts)
          /\ next_download.ts = next_upload.ts =>
                 /\ Consumed(upload_pos, next_upload)' =
                        Consumed(upload_pos, next_upload) + 1
                 /\ next_download' = next_download
                 /\ next_upload.name # Null =>
                        merged' = Append(merged, UploadEntry(next_upload))
      ]_vars

C4_Witness ==
    /\ mpc = "done"
    /\ \E i, j \in 1..Len(merged) :
         /\ i < j
         /\ IsPublish(merged[i]) /\ IsDownloadEntry(merged[j])
         /\ merged[i].timestamp = merged[j].timestamp
    /\ \E i, j \in 1..Len(merged) :
         /\ i < j
         /\ IsDownloadEntry(merged[i]) /\ IsPublish(merged[j])

----------------------------------------------------------------------------
(* Properties of write_logs (Spec) *)

\* C5: when a producer has failed during the merge, write_logs has ended
\* with the error, goodbyeify has not been started on the partial log and
\* nothing has been written to the output.
C5_NoGoodbyeAfterMergeError ==
    mpc = "raised" => (wpc = "error" /\ gpc = "idle" /\ output = <<>>)

C5_Witness ==
    /\ mpc = "raised"
    /\ wpc = "error"
    /\ unprocessed # <<>>
    /\ next_download # None

----------------------------------------------------------------------------
(* SpecGoodbyeMain: a run of goodbye.main, from the parsing of the command  *)
(* line to the exit of main, on an input file nobody checked: its lines may *)
(* be events, text that is not JSON, JSON with an action of an unknown tag, *)
(* or empty.                                                                *)

UnknownTagLine == <<"X", "u", "1">>   \* {"action": {"X": ...}, ...}: valid JSON
GarbageLine == <<"?">>                \* text json.loads rejects

RawLines ==
    {DownloadLine("u", "a", "1"), PublishLine("a", "1"),
     UnknownTagLine, GarbageLine, <<>>}

RawLogs == UNION {[1..k -> RawLines] : k \in 0..MaxRawLen}

InitGoodbyeMain ==
    /\ MergeIdle /\ OtherIdle
    /\ input \in {Flatten(l) : l \in RawLogs}
    /\ buf_size \in BufSizes
    /\ tmpfile = <<>>
    /\ pending = <<>>
    /\ seen = {}
    /\ output = <<>>
    /\ gpc = "idle"
    /\ round = 0
    /\ fs = NoFiles
    /\ main = "parse"

NextGoodbyeMain ==
    \/ ParseArgs \/ GoodbyeMainEnter
    \/ GoodbyeOpen \/ Pass1Step \/ Pass1DecodeError \/ Pass1End
    \/ Pass2Step \/ Pass2End
    \/ GoodbyeIOFail \/ GoodbyeMainExit

SpecGoodbyeMain == InitGoodbyeMain /\ [][NextGoodbyeMain]_vars

\* a line that is one of the four events of the log format
IsValidEvent(line) == line # <<>> /\ line[1] \in {"D", "P", "R", "G"}

\* C11: every input line that does not decode to a valid event (text that
\* cannot be parsed, or an action of a tag other than Download, Publish,
\* RefreshMetadata, Goodbye) aborts the synthesis: a run over such an input
\* never ends normally, and no such line is ever written to the output.
C11_InvalidLineAborts ==
    /\ (\E i \in 1..Len(InLines) : ~IsValidEvent(InLines[i])) => gpc # "done"
    /\ \A i \in 1..Len(OutLines) : IsValidEvent(OutLines[i])

\* C29: goodbyeify writes nothing to its output before its first pass over
\* the whole input is complete: the output is empty as long as the first
\* pass runs, and it is empty when a line has failed to decode.
C29_NoOutputBeforePass1Ends ==
    /\ gpc \in {"idle", "start", "pass1"} => output = <<>>
    /\ (gpc = "error" /\ pending # <<>> /\ ~Decodes(Head(pending))) =>
           output = <<>>

\* a line failed to decode after other lines had been written to the
\* staging file
C29_Witness ==
    /\ gpc = "error"
    /\ pending # <<>> /\ ~Decodes(Head(pending))
    /\ tmpfile # <<>>
    /\ output = <<>>

\* C12: a run that fails leaves no output file in place at the output path
\* (the output being produced under a temporary path and moved to the
\* output path only once the run has fully succeeded).
C12_FailedRunLeavesNoOutput == main = "failed" => ~fs.out_file

\* C13: the staging file of a run does not exist before the run opens it,
\* exists only inside the private temporary directory of the run, and
\* neither it nor the directory exists once the run has ended, whether it
\* succeeded or failed (decode error in pass 1, I/O error in either pass).
C13_StagingRemoved ==
    /\ gpc \in {"idle", "start"} => ~fs.staging
    /\ fs.staging => fs.tmpdir
    /\ main \in {"exited", "failed"} => ~fs.staging /\ ~fs.tmpdir

\* a run that failed after it had written lines to its staging file
C13_Witness == main = "failed" /\ gpc = "error" /\ tmpfile # <<>>

----------------------------------------------------------------------------
(* Properties of the entries of the assembled log (SpecMerge) *)

\* C18: an event is recovered from its serialized line: the variant, its
\* fields and the timestamp (sub-second part included) are all kept, so no
\* two distinct events of a log serialize to the same line.
C18_SerializationInjective ==
    \A i, j \in 1..Len(merged) :
        EntryLine(merged[i]) = EntryLine(merged[j]) => merged[i] = merged[j]

\* C19: every Publish and Download entry of the assembled log carries a
\* canonicalized package id (lower case, "_" and "." folded to "-").
C19_CanonicalPackages ==
    \A i \in 1..Len(merged) :
        merged[i].action.package = Canonicalize(merged[i].action.package)

----------------------------------------------------------------------------
(* generate_package_data: PackageData, the aggregator of download lines.    *)
(* A timestamp is a number of seconds counted from a Monday 00:00:00; a     *)
(* Counter is a function with 0 for the keys never incremented.             *)

SESSION_DURATION == 60       \* datetime.timedelta(minutes=1), in seconds

AggUsers == {"u", "v"}
AggPackages == {"a", "b"}
AggTimes == {0, 30, 60, 61, 91, 3590, 3630}

\* (timestamp.isoweekday(), timestamp.hour)
HourOfWeek(t) == <<((t \div 86400) % 7) + 1, (t \div 3600) % 24>>

HourKeys == {HourOfWeek(t) : t \in AggTimes}

\* Counter(): every key at 0
Counter(keys) == [k \in keys |-> 0]

\* counter[key] += 1
Inc(counter, key) == [counter EXCEPT ![key] = @ + 1]

\* PackageData(): the defaults of the fields
NewData ==
    [dls_by_package |-> Counter(AggPackages),
     dls_by_user |-> Counter(AggUsers),
     dls_by_hour |-> Counter(HourKeys),
     sessions_by_user |-> Counter(AggUsers),
     sessions_by_hour |-> Counter(HourKeys),
     sessions_by_count |-> Counter(0..MaxDls),
     users_in_cur_session |-> {},
     cur_session_start |-> None,
     downloads_in_cur_session |-> 0,
     sessions_count |-> 0,
     dls_count |-> 0,
     start_time |-> None,
     end_time |-> None]

\* a datetime held in an Optional field
At(t) == [t |-> t]

\* lines 45-48 with <= for <: a download at exactly start + duration opens
OpensSessionAtThreshold(d, t) ==
    d.cur_session_start = None \/ d.cur_session_start.t + SESSION_DURATION <= t

\* lines 45-48: no session is open, or the download is later than the start
\* of the current session plus SESSION_DURATION
OpensSession(d, t) ==
    d.cur_session_start = None \/ d.cur_session_start.t + SESSION_DURATION < t

\* line 52 run for every download: the window slides with the last download
SessionStartSliding(d, t, opens) == At(t)

\* line 52: the start of the session is set when a session is opened, and
\* only then
SessionStart(d, t, opens) == IF opens THEN At(t) ELSE d.cur_session_start

\* lines 36-43 without line 43: the total of downloads is not kept
CountDownloadNoTotal(d, userid, packageid, t) ==
    [d EXCEPT !.start_time = IF d.start_time = None THEN At(t) ELSE @,
              !.dls_by_package = Inc(@, packageid),
              !.dls_by_user = Inc(@, userid),
              !.dls_by_hour = Inc(@, HourOfWeek(t))]

\* lines 36-43: the totals
CountDownload(d, userid, packageid, t) ==
    [d EXCEPT !.start_time = IF d.start_time = None THEN At(t) ELSE @,
              !.dls_by_package = Inc(@, packageid),
              !.dls_by_user = Inc(@, userid),
              !.dls_by_hour = Inc(@, HourOfWeek(t)),
              !.dls_count = @ + 1]

\* line 54 run for every download
SessionHoursEveryDownload(d, t, opens) == Inc(d.sessions_by_hour, HourOfWeek(t))

\* line 54: the bucket of the download that opens a session is counted, and
\* no other
SessionHours(d, t, opens) ==
    IF opens THEN Inc(d.sessions_by_hour, HourOfWeek(t)) ELSE d.sessions_by_hour

\* lines 45-56: the session the download falls in
PlaceInSession(d, t) ==
    LET opens == OpensSession(d, t) IN
    IF opens
    THEN [d EXCEPT !.sessions_by_count =
                       IF d.cur_session_start # None
                       THEN Inc(@, d.downloads_in_cur_session) ELSE @,
                   !.cur_session_start = SessionStart(d, t, opens),
                   !.sessions_count = @ + 1,
                   !.sessions_by_hour = SessionHours(d, t, opens),
                   !.users_in_cur_session = {},
                   !.downloads_in_cur_session = 0]
    ELSE [d EXCEPT !.cur_session_start = SessionStart(d, t, opens),
                   !.sessions_by_hour = SessionHours(d, t, opens)]

\* lines 58-62 without the test of line 60: every download counts for its user
CountInSessionEveryDownload(d, userid) ==
    [d EXCEPT !.downloads_in_cur_session = @ + 1,
              !.users_in_cur_session = @ \cup {userid},
              !.sessions_by_user = Inc(@, userid)]

\* lines 58-62: the size of the session and its users
CountInSession(d, userid) ==
    [d EXCEPT !.downloads_in_cur_session = @ + 1,
              !.users_in_cur_session = @ \cup {userid},
              !.sessions_by_user =
                  IF userid \notin d.users_in_cur_session THEN Inc(@, userid) ELSE @]

\* _handle_download
handle_download(d, userid, packageid, t) ==
    CountInSession(PlaceInSession(CountDownload(d, userid, packageid, t), t), userid)

\* handle_downloads, lines 66-71: one line of the input
HandleDownload ==
    /\ agg_pc = "loop"
    /\ agg_pos < Len(agg_lines)
    /\ LET l == agg_lines[agg_pos + 1]
       IN  data' = handle_download(data, l.user, l.package, l.ts)
    /\ agg_pos' = agg_pos + 1
    /\ UNCHANGED <<agg_lines, agg_pc, scriptVars>>
    /\ UNCHANGED logVars
    /\ UNCHANGED hackageVars
    /\ UNCHANGED trimVars

\* line 75 left out: the session that is open at the end is never counted
FlushLastNever(d) == d

\* lines 74-75: the size of the last session is counted
FlushLast(d) ==
    [d EXCEPT !.sessions_by_count = Inc(@, d.downloads_in_cur_session)]

\* handle_downloads, lines 72-75: the input is exhausted
HandleDownloadsEnd ==
    /\ agg_pc = "loop"
    /\ agg_pos = Len(agg_lines)
    /\ data' = FlushLast(
                   [data EXCEPT !.end_time =
                       IF agg_lines # <<>>
                       THEN At(agg_lines[Len(agg_lines)].ts) ELSE @])
    /\ agg_pc' = "done"
    /\ UNCHANGED <<agg_lines, agg_pos, scriptVars>>
    /\ UNCHANGED logVars
    /\ UNCHANGED hackageVars
    /\ UNCHANGED trimVars

\* SpecAggregate: handle_downloads on a fresh PackageData, over the lines of
\* a download log (non-decreasing timestamps).

DownloadRecord == [user : AggUsers, package : AggPackages, ts : AggTimes]

AggSorted(ls) == \A i \in 1..(Len(ls) - 1) : ls[i].ts <= ls[i + 1].ts

DownloadLogs ==
    {ls \in UNION {[1..k -> DownloadRecord] : k \in 0..MaxDls} : AggSorted(ls)}

HackageIdle == archive = <<>> /\ hk_log = <<>> /\ hk_pc = "idle"

InitAggregate ==
    /\ MergeIdle /\ GoodbyeIdle /\ CalledDirectly
    /\ buf_size = SetMax(BufSizes)
    /\ HackageIdle /\ TrimIdle
    /\ pd_data = None /\ pd_pos = 0 /\ pd_pc = "idle"
    /\ agg_lines \in DownloadLogs
    /\ agg_pos = 0
    /\ agg_pc = "loop"
    /\ data = NewData

NextAggregate == HandleDownload \/ HandleDownloadsEnd

SpecAggregate == InitAggregate /\ [][NextAggregate]_vars

\* the timestamps of the input, in input order
AggTs == [i \in 1..Len(agg_lines) |-> agg_lines[i].ts]

RECURSIVE SumUpTo(_, _)
\* the sum of the entries 0..n of a Counter keyed by numbers
SumUpTo(counter, n) ==
    IF n < 0 THEN 0 ELSE counter[n] + SumUpTo(counter, n - 1)

\* the step that handles the download at time t opens a session
SessionOpened(t) ==
    /\ data'.sessions_count = data.sessions_count + 1
    /\ data'.cur_session_start = At(t)
    /\ data'.downloads_in_cur_session = 1

\* the step that handles a download adds it to the session that was open
SessionKept ==
    /\ data'.sessions_count = data.sessions_count
    /\ data'.cur_session_start = data.cur_session_start
    /\ data'.downloads_in_cur_session = data.downloads_in_cur_session + 1

\* C14: a download at t opens a session iff no session is open or t minus
\* the start of the current session is strictly greater than the threshold
\* (a download at exactly start + threshold stays in the session); with the
\* threshold at 60 s, downloads at 0 s, 30 s, 91 s give sessions_count = 2
\* and sessions_by_count = {2: 1, 1: 1}.
C14_NewSessionRule ==
    /\ [][agg_pos' = agg_pos + 1 =>
            LET t == agg_lines[agg_pos'].ts IN
            IF data.cur_session_start = None
               \/ t - data.cur_session_start.t > SESSION_DURATION
            THEN SessionOpened(t) ELSE SessionKept]_vars
    /\ [](agg_pc = "done" /\ AggTs = <<0, 30, 91>> =>
            /\ data.sessions_count = 2
            /\ data.sessions_by_count =
                   [k \in 0..MaxDls |-> IF k \in {1, 2} THEN 1 ELSE 0])

\* a download exactly one threshold after the start of its session stayed
\* in it, and the next one, a second later, opened a session
C14_Witness ==
    /\ agg_pc = "done"
    /\ AggTs = <<0, 60, 61>>
    /\ data.sessions_count = 2
    /\ data.sessions_by_count[2] = 1 /\ data.sessions_by_count[1] = 1

RECURSIVE GapStart(_, _)
\* the first download of the run of downloads that holds download i, when a
\* run is broken where the gap between consecutive downloads exceeds the
\* threshold
GapStart(ts, i) ==
    IF i = 1 THEN 1
    ELSE IF ts[i] - ts[i - 1] > SESSION_DURATION THEN i
    ELSE GapStart(ts, i - 1)

RECURSIVE WindowStart(_, _)
\* the first download of the run that holds download i, when a run is
\* broken where a download is later than the first download of its run by
\* more than the threshold
WindowStart(ts, i) ==
    IF i = 1 THEN 1
    ELSE LET s == WindowStart(ts, i - 1)
         IN  IF ts[i] - ts[s] > SESSION_DURATION THEN i ELSE s

\* C15 as stated: the sessions are the maximal runs of downloads in which no
\* gap between consecutive downloads exceeds the threshold: two consecutive
\* downloads are in the same session iff their gap is at most the threshold.
C15_GapSessions ==
    agg_pos >= 1 =>
        /\ data.downloads_in_cur_session = agg_pos - GapStart(AggTs, agg_pos) + 1
        /\ data.sessions_count =
               Cardinality({GapStart(AggTs, i) : i \in 1..agg_pos})

\* C15, amended: the sessions are the runs of downloads in which every
\* download is at most the threshold later than the first download of its
\* run: a download is in the session of the download before it iff it is at
\* most the threshold later than the first download of that session.
C15_WindowSessions ==
    agg_pos >= 1 =>
        /\ data.cur_session_start = At(AggTs[WindowStart(AggTs, agg_pos)])
        /\ data.downloads_in_cur_session =
               agg_pos - WindowStart(AggTs, agg_pos) + 1
        /\ data.sessions_count =
               Cardinality({WindowStart(AggTs, i) : i \in 1..agg_pos})

\* three downloads with gaps within the threshold, in two sessions: the
\* third is more than the threshold after the first
C15_Witness ==
    /\ agg_pos = 3
    /\ AggTs = <<0, 60, 91>>
    /\ data.sessions_count = 2
    /\ data.cur_session_start = At(91)

\* C16: after handle_downloads over at least one download, the size of the
\* session open at the end has been counted exactly once: the entries of
\* sessions_by_count sum to sessions_count (to one less while the session
\* is still open), no session of size 0 is counted, and a stream of one
\* download gives sessions_by_count = {1: 1}.
C16_LastSessionFlushedOnce ==
    agg_lines # <<>> =>
        /\ data.sessions_by_count[0] = 0
        /\ agg_pc = "loop" /\ agg_pos >= 1 =>
               SumUpTo(data.sessions_by_count, MaxDls) = data.sessions_count - 1
        /\ agg_pc = "done" =>
               /\ SumUpTo(data.sessions_by_count, MaxDls) = data.sessions_count
               /\ data.sessions_by_count[data.downloads_in_cur_session] >= 1
        /\ agg_pc = "done" /\ Len(agg_lines) = 1 =>
               data.sessions_by_count =
                   [k \in 0..MaxDls |-> IF k = 1 THEN 1 ELSE 0]

\* a finished run whose last session has the size of an earlier one
C16_Witness ==
    /\ agg_pc = "done"
    /\ Len(agg_lines) = 2
    /\ data.sessions_count = 2
    /\ data.sessions_by_count[1] = 2

\* C17: handle_downloads over an empty input leaves every counter at zero,
\* the distribution of session sizes included: no session is flushed.
C17_EmptyInputAllZero ==
    agg_pc = "done" /\ agg_lines = <<>> =>
        /\ data.dls_count = 0 /\ data.sessions_count = 0
        /\ \A k \in 0..MaxDls : data.sessions_by_count[k] = 0
        /\ \A u \in AggUsers : data.dls_by_user[u] = 0 /\ data.sessions_by_user[u] = 0
        /\ \A q \in AggPackages : data.dls_by_package[q] = 0
        /\ \A h \in HourKeys : data.dls_by_hour[h] = 0 /\ data.sessions_by_hour[h] = 0

----------------------------------------------------------------------------
(* hackage.process: the members of 01-index.tar turned into Publish entries. *)
(* A member name is a sequence of tokens, "/" being the separator.           *)

RECURSIVE SplitPath(_)
\* name.split("/")
SplitPath(name) ==
    IF name = <<>> THEN << <<>> >>
    ELSE IF Head(name) = "/" THEN << <<>> >> \o SplitPath(Tail(name))
    ELSE LET r == SplitPath(Tail(name))
         IN  << <<Head(name)>> \o Head(r) >> \o Tail(r)

\* package-name/version/file and package-name/preferred-versions
FileNames ==
    {<<"f", "/", "1", "/", "x">>, <<"f", "/", "2", "/", "x">>,
     <<"b", "/", "1", "/", "x">>, <<"b", "/", "1", "/", "y">>}
PreferredVersionsName == <<"f", "/", "preferred-versions">>

MTimes == {1, 2}
Sizes == {5, 7}

\* tarfile.TarInfo: name, mtime, size
TarInfo ==
    [name : FileNames, mtime : MTimes, size : Sizes]
    \cup [name : {PreferredVersionsName}, mtime : MTimes, size : {0}]

Archives == UNION {[1..k -> TarInfo] : k \in 0..MaxArchive}

\* line 86: f.name.split("/")[-1] != "preferred-versions"
Kept(f) ==
    LET parts == SplitPath(f.name)
    IN  parts[Len(parts)] # <<"preferred-versions">>

\* lines 85-87
archive_filtered(members) == SelectSeq(members, Kept)

\* a key that looks at the package only
from_tarinfo_package_only(info) ==
    LET parts == SplitPath(info.name)
    IN  [package |-> parts[1], release |-> <<"1">>]

\* ReleaseId.from_tarinfo
from_tarinfo(info) ==
    LET parts == SplitPath(info.name)
    IN  [package |-> parts[1], release |-> parts[2]]

RECURSIVE GroupBy(_)
\* itertools.groupby(members, key=ReleaseId.from_tarinfo): the maximal runs of
\* adjacent members with equal keys, each with its key
GroupBy(members) ==
    IF members = <<>> THEN <<>>
    ELSE LET k == from_tarinfo(Head(members))
             rest == GroupBy(Tail(members))
         IN  IF rest # <<>> /\ rest[1].key = k
             THEN <<[key |-> k, infos |-> <<Head(members)>> \o rest[1].infos]>>
                      \o Tail(rest)
             ELSE <<[key |-> k, infos |-> <<Head(members)>>]>> \o rest

\* datetime.datetime.fromtimestamp
FromTimestamp(n) == [epoch |-> n]

\* line 70 taking the modification time of the last member of the group
GroupMTimeOfLast(infos) == infos[Len(infos)].mtime

\* line 70: max(info.mtime for info in infos)
GroupMTime(infos) == SetMax({infos[i].mtime : i \in 1..Len(infos)})

\* tar_entries_to_log_entry
tar_entries_to_log_entry(release_id, infos) ==
    [timestamp |-> FromTimestamp(GroupMTime(infos)),
     action |->
         [tag |-> "Publish",
          package |-> release_id.package,
          release |->
              [version |-> release_id.release,
               files |-> [i \in 1..Len(infos) |->
                             [name |-> infos[i].name, length |-> infos[i].size]]]]]

\* process
process(members) ==
    LET groups == GroupBy(archive_filtered(members))
    IN  [g \in 1..Len(groups) |->
            tar_entries_to_log_entry(groups[g].key, groups[g].infos)]

\* lines 84-91: process returns its list
HackageProcess ==
    /\ hk_pc = "start"
    /\ hk_log' = process(archive)
    /\ hk_pc' = "done"
    /\ UNCHANGED archive
    /\ UNCHANGED logVars
    /\ UNCHANGED <<agg_lines, agg_pos, agg_pc, data, scriptVars>>
    /\ UNCHANGED trimVars

AggregateIdle ==
    /\ agg_lines = <<>> /\ agg_pos = 0 /\ agg_pc = "idle" /\ data = None
    /\ pd_data = None /\ pd_pos = 0 /\ pd_pc = "idle"

InitHackage ==
    /\ MergeIdle /\ GoodbyeIdle /\ CalledDirectly
    /\ buf_size = SetMax(BufSizes)
    /\ AggregateIdle /\ TrimIdle
    /\ archive \in Archives
    /\ hk_log = <<>>
    /\ hk_pc = "start"

NextHackage == HackageProcess

SpecHackage == InitHackage /\ [][NextHackage]_vars

\* the members process keeps, read off the archive
KeptMembers == SelectSeq(archive, LAMBDA f : f.name[Len(f.name)] # "preferred-versions")

\* package and release of a member, read off its name
MemberRelease(f) == << <<f.name[1]>>, <<f.name[3]>> >>

\* package and release of a log entry
EntryRelease(entry) ==
    <<entry.action.package, entry.action.release.version>>

RECURSIVE LogFiles(_)
\* the files of the entries of a log, one after the other
LogFiles(log) ==
    IF log = <<>> THEN <<>>
    ELSE Head(log).action.release.files \o LogFiles(Tail(log))

RECURSIVE FilesBefore(_, _)
\* the number of files listed by the entries of a log before entry e
FilesBefore(log, e) ==
    IF e <= 1 THEN 0
    ELSE Len(log[e - 1].action.release.files) + FilesBefore(log, e - 1)

\* the kept members of the archive that entry e of the log stands for
MembersOf(e) ==
    SubSeq(KeptMembers, FilesBefore(hk_log, e) + 1,
           FilesBefore(hk_log, e) + Len(hk_log[e].action.release.files))

----------------------------------------------------------------------------
(* trim.trim: the logs cut down to the most common packages *)

\* json.loads(line): the action tag and the fields of the line
json_loads(line) == [tag |-> Head(line), fields |-> Tail(line)]

\* json.dumps(entry)
json_dumps(entry) == <<entry.tag>> \o entry.fields

\* get_name.  The assert of line 17 holds for the lines of the model, which
\* are Publish, Download and Goodbye lines.
get_name(log_entry) ==
    IF log_entry.tag = "P" THEN log_entry.fields[1]
    ELSE IF log_entry.tag = "D" THEN log_entry.fields[2]
    ELSE Null

\* map(get_name, map(json.loads, file))
NamesOf(file) ==
    LET ls == FileLines(file)
    IN  [i \in 1..Len(ls) |-> get_name(json_loads(ls[i]))]

\* Counter(names)[a]
CountOf(names, a) == Cardinality({i \in 1..Len(names) : names[i] = a})

\* the place where a is first met, which is the place of a in the Counter
FirstPlace(names, a) == CHOOSE i \in 1..Len(names) :
    names[i] = a /\ \A j \in 1..(i - 1) : names[j] # a

\* a comes before b in Counter(names).most_common(): larger count first,
\* equal counts in the order first met
Before(names, a, b) ==
    \/ CountOf(names, a) > CountOf(names, b)
    \/ /\ CountOf(names, a) = CountOf(names, b)
       /\ FirstPlace(names, a) < FirstPlace(names, b)

\* a number given on the command line
Num(k) == [n |-> k]

\* set(value for value, _ in Counter(names).most_common(n))
MostCommon(names, n) ==
    LET all == {names[i] : i \in 1..Len(names)}
    IN  IF n = None THEN all
        ELSE {a \in all : Cardinality({b \in all : Before(names, b, a)}) < n.n}

\* line 30: the file whose names are counted
Counted(initial, events) == initial

\* lines 30-31 and 37: top is computed from a whole pass over a file, and
\* input_initial is rewound
TrimCount ==
    /\ tpc = "count"
    /\ top' = MostCommon(NamesOf(Counted(input_initial, input_events)), num_packages)
    /\ trim_pos' = 0
    /\ tpc' = "initial"
    /\ UNCHANGED <<input_initial, input_events, num_packages, num_entries,
                   output_initial, output_events, trim_written>>
    /\ UNCHANGED logVars
    /\ UNCHANGED <<agg_lines, agg_pos, agg_pc, data, scriptVars>>
    /\ UNCHANGED hackageVars

\* a filter that lets every entry through
in_top_always(entry, t) == TRUE

\* line 34: in_top
in_top(entry, t) == get_name(entry) \in t

\* lines 38-39: one line of input_initial
TrimInitialStep ==
    /\ tpc = "initial"
    /\ trim_pos < Len(FileLines(input_initial))
    /\ LET entry == json_loads(FileLines(input_initial)[trim_pos + 1])
       IN  output_initial' =
               IF in_top(entry, top)
               THEN WriteLine(output_initial, json_dumps(entry))
               ELSE output_initial
    /\ trim_pos' = trim_pos + 1
    /\ UNCHANGED <<input_initial, input_events, num_packages, num_entries, top,
                   output_events, trim_written, tpc>>
    /\ UNCHANGED logVars
    /\ UNCHANGED <<agg_lines, agg_pos, agg_pc, data, scriptVars>>
    /\ UNCHANGED hackageVars

\* lines 38 and 42: input_initial is exhausted; the loop over input_events
\* starts
TrimInitialEnd ==
    /\ tpc = "initial"
    /\ trim_pos = Len(FileLines(input_initial))
    /\ trim_pos' = 0
    /\ tpc' = "events"
    /\ UNCHANGED <<input_initial, input_events, num_packages, num_entries, top,
                   output_initial, output_events, trim_written>>
    /\ UNCHANGED logVars
    /\ UNCHANGED <<agg_lines, agg_pos, agg_pc, data, scriptVars>>
    /\ UNCHANGED hackageVars

\* line 42: islice(..., num_entries) still asks its source for entries
SliceOpen(written, n) == IF n = None THEN TRUE ELSE written < n.n

\* lines 42-43: one line of input_events
TrimEventStep ==
    /\ tpc = "events"
    /\ SliceOpen(trim_written, num_entries)
    /\ trim_pos < Len(FileLines(input_events))
    /\ LET entry == json_loads(FileLines(input_events)[trim_pos + 1])
       IN  IF in_top(entry, top)
           THEN /\ output_events' = WriteLine(output_events, json_dumps(entry))
                /\ trim_written' = trim_written + 1
           ELSE UNCHANGED <<output_events, trim_written>>
    /\ trim_pos' = trim_pos + 1
    /\ UNCHANGED <<input_initial, input_events, num_packages, num_entries, top,
                   output_initial, tpc>>
    /\ UNCHANGED logVars
    /\ UNCHANGED <<agg_lines, agg_pos, agg_pc, data, scriptVars>>
    /\ UNCHANGED hackageVars

\* line 42: the islice or input_events is exhausted; trim returns
TrimEnd ==
    /\ tpc = "events"
    /\ \/ ~SliceOpen(trim_written, num_entries)
       \/ trim_pos = Len(FileLines(input_events))
    /\ tpc' = "done"
    /\ UNCHANGED <<input_initial, input_events, num_packages, num_entries, top,
                   output_initial, output_events, trim_pos, trim_written>>
    /\ UNCHANGED logVars
    /\ UNCHANGED <<agg_lines, agg_pos, agg_pc, data, scriptVars>>
    /\ UNCHANGED hackageVars

\* SpecTrim: trim on an initial-state file (Publish lines) and an event file
\* (Publish, Download and Goodbye lines).

TrimPackages == {"a", "b"}

TrimInitialLines == {PublishLine(q, "1") : q \in TrimPackages}

TrimEventLines ==
    {DownloadLine("u", q, "1") : q \in TrimPackages}
    \cup {PublishLine("a", "1"), GoodbyeLine("u", "1")}

TrimInitialFiles ==
    {Flatten(l) : l \in UNION {[1..k -> TrimInitialLines] : k \in 0..MaxTrimInitial}}

TrimEventFiles ==
    {Flatten(l) : l \in UNION {[1..k -> TrimEventLines] : k \in 0..MaxTrimEvents}}

InitTrim ==
    /\ MergeIdle /\ GoodbyeIdle /\ CalledDirectly
    /\ buf_size = SetMax(BufSizes)
    /\ AggregateIdle /\ HackageIdle
    /\ input_initial \in TrimInitialFiles
    /\ input_events \in TrimEventFiles
    /\ num_packages \in {None, Num(0), Num(1)}
    /\ num_entries \in {None, Num(1), Num(2)}
    /\ top = {}
    /\ output_initial = <<>> /\ output_events = <<>>
    /\ trim_pos = 0 /\ trim_written = 0
    /\ tpc = "count"

NextTrim ==
    TrimCount \/ TrimInitialStep \/ TrimInitialEnd \/ TrimEventStep \/ TrimEnd

SpecTrim == InitTrim /\ [][NextTrim]_vars

\* the package a line of a log names, read off the line
LinePackage(line) ==
    IF line[1] = "P" THEN line[2] ELSE IF line[1] = "D" THEN line[3] ELSE Null

\* the number of Download lines of package a in the event file
DownloadsOf(a) ==
    Cardinality({i \in 1..Len(FileLines(input_events)) :
                    /\ FileLines(input_events)[i][1] = "D"
                    /\ FileLines(input_events)[i][3] = a})

\* the packages named in the two input files
NamedPackages ==
    ({LinePackage(FileLines(input_events)[i]) : i \in 1..Len(FileLines(input_events))}
     \cup {LinePackage(FileLines(input_initial)[i]) :
               i \in 1..Len(FileLines(input_initial))})
    \ {Null}

\* C22: the kept packages are the num_packages packages with the most
\* Download events in input_events: every kept package has at least as many
\* downloads as every package left out, and num_packages packages are kept
\* (all of them when there are fewer, or when num_packages is not given).
C22_TopByDownloads ==
    tpc \in {"initial", "events", "done"} =>
        /\ top \subseteq NamedPackages
        /\ \A a \in top : \A b \in NamedPackages \ top :
               DownloadsOf(a) >= DownloadsOf(b)
        /\ Cardinality(top) =
               IF num_packages = None THEN Cardinality(NamedPackages)
               ELSE Min(num_packages.n, Cardinality(NamedPackages))

\* the first n elements of a sequence (all of it when n is None)
FirstN(ls, n) == IF n = None THEN ls ELSE SubSeq(ls, 1, Min(n.n, Len(ls)))

\* C27: trim writes to output_events, in input order, exactly the first
\* num_entries events of input_events whose package is kept; a Goodbye is
\* never written; every line of output_initial is a Publish of a kept
\* package.
C27_TrimOutput ==
    /\ tpc = "done" =>
           FileLines(output_events) =
               FirstN(SelectSeq(FileLines(input_events),
                                LAMBDA l : LinePackage(l) \in top),
                      num_entries)
    /\ \A i \in 1..Len(FileLines(output_events)) :
           FileLines(output_events)[i][1] # "G"
    /\ \A i \in 1..Len(FileLines(output_initial)) :
           /\ FileLines(output_initial)[i][1] = "P"
           /\ FileLines(output_initial)[i][2] \in top

\* a run that skipped a Goodbye and a Download of a package not kept, wrote
\* one event and stopped at num_entries with a kept event still unread
C27_Witness ==
    /\ tpc = "done"
    /\ num_entries = Num(1)
    /\ top = {"a"}
    /\ FileLines(input_events) =
           <<GoodbyeLine("u", "1"), DownloadLine("u", "b", "1"),
             DownloadLine("u", "a", "1")>>
    /\ FileLines(output_events) = <<DownloadLine("u", "a", "1")>>
    /\ FileLines(output_initial) = <<PublishLine("a", "1")>>

----------------------------------------------------------------------------
(* Properties of the counters of the aggregator (SpecAggregate) *)

\* the sessions of the downloads handled so far, each named by the place of
\* its first download
SessionsSoFar == {WindowStart(AggTs, i) : i \in 1..agg_pos}

RECURSIVE SumOver(_, _)
\* the sum of the entries of a Counter over a set of keys
SumOver(counter, keys) ==
    IF keys = {} THEN 0
    ELSE LET k == CHOOSE x \in keys : TRUE
         IN  counter[k] + SumOver(counter, keys \ {k})

RECURSIVE WeightedSumUpTo(_, _)
\* the sum of key times entry over the keys 0..n of a Counter
WeightedSumUpTo(counter, n) ==
    IF n < 0 THEN 0 ELSE n * counter[n] + WeightedSumUpTo(counter, n - 1)

\* C24: sessions_by_user[u] is the number of distinct sessions that hold at
\* least one download by u, whatever the order of the users' downloads
\* inside a session.
C24_SessionsByUser ==
    \A u \in AggUsers :
        data.sessions_by_user[u] =
            Cardinality({WindowStart(AggTs, i) :
                            i \in {j \in 1..agg_pos : agg_lines[j].user = u}})

\* one session in which u downloads, then v, then u again
C24_Witness ==
    /\ agg_pos = 3
    /\ data.sessions_count = 1
    /\ agg_lines[1].user = "u" /\ agg_lines[2].user = "v" /\ agg_lines[3].user = "u"
    /\ data.sessions_by_user["u"] = 1 /\ data.sessions_by_user["v"] = 1

\* C25: every session counts once in sessions_by_hour, in the (ISO weekday,
\* hour) bucket of its first download, so the entries of sessions_by_hour
\* sum to sessions_count; later downloads of the session do not count,
\* whatever their bucket.
C25_SessionsByHour ==
    /\ \A h \in HourKeys :
           data.sessions_by_hour[h] =
               Cardinality({s \in SessionsSoFar : HourOfWeek(AggTs[s]) = h})
    /\ SumOver(data.sessions_by_hour, HourKeys) = data.sessions_count

\* a session opened at 00:59:50 that holds a download at 01:00:30
C25_Witness ==
    /\ agg_pos = 2
    /\ AggTs = <<3590, 3630>>
    /\ data.sessions_count = 1
    /\ data.sessions_by_hour[<<1, 0>>] = 1
    /\ data.sessions_by_hour[<<1, 1>>] = 0

\* C28: after every download the totals agree: dls_count is the sum of
\* dls_by_user, of dls_by_package and of dls_by_hour, and it is
\* downloads_in_cur_session plus the sum of size times count over
\* sessions_by_count (every download is in exactly one session).
C28_TotalsAgree ==
    agg_pc = "loop" =>
        /\ data.dls_count = agg_pos
        /\ data.dls_count = SumOver(data.dls_by_user, AggUsers)
        /\ data.dls_count = SumOver(data.dls_by_package, AggPackages)
        /\ data.dls_count = SumOver(data.dls_by_hour, HourKeys)
        /\ data.dls_count =
               data.downloads_in_cur_session
               + WeightedSumUpTo(data.sessions_by_count, MaxDls)

\* three downloads by two users of two packages, in two sessions
C28_Witness ==
    /\ agg_pc = "loop" /\ agg_pos = 3
    /\ data.sessions_count = 2
    /\ data.dls_by_user["u"] >= 1 /\ data.dls_by_user["v"] >= 1
    /\ data.dls_by_package["a"] >= 1 /\ data.dls_by_package["b"] >= 1
    /\ data.sessions_by_count[2] = 1 /\ data.downloads_in_cur_session = 1

----------------------------------------------------------------------------
(* The merge as a streaming operation (SpecMerge) *)

\* the head of a producer is nothing, or the last row pulled from it
HeadIsLastPulled(rows, pos, head) ==
    /\ pos <= Len(rows)
    /\ head # None => pos >= 1 /\ head = rows[pos]

\* C26: the merge is streaming: of the rows pulled from a producer, all but
\* the current head have been emitted (each producer has at most one row
\* fetched and not yet emitted), and a step of the loop pulls at most one
\* row, from the producer whose head it has just consumed.
C26_MergeIsStreaming ==
    /\ [](/\ HeadIsLastPulled(upload_rows, upload_pos, next_upload)
          /\ HeadIsLastPulled(download_rows, download_pos, next_download)
          /\ SelectSeq(merged, IsPublish) =
                 UploadEntries(SubSeq(upload_rows, 1,
                                      Consumed(upload_pos, next_upload)))
          /\ SelectSeq(merged, IsDownloadEntry) =
                 DownloadEntries(SubSeq(download_rows, 1,
                                        Consumed(download_pos, next_download))))
    /\ [][/\ upload_pos' <= upload_pos + 1
          /\ download_pos' <= download_pos + 1
          /\ mpc = "loop" =>
                 /\ upload_pos' = upload_pos \/ download_pos' = download_pos
                 /\ upload_pos' # upload_pos =>
                        next_upload # None /\ next_download' = next_download
                 /\ download_pos' # download_pos =>
                        next_download # None /\ next_upload' = next_upload]_vars

\* the second upload row is the head, the first one has been emitted, and
\* the second download row has not been pulled yet
C26_Witness ==
    /\ mpc = "loop"
    /\ upload_pos = 2 /\ next_upload = upload_rows[2]
    /\ download_pos = 1 /\ next_download = download_rows[1]
    /\ Len(download_rows) = 2
    /\ Len(merged) = 1 /\ IsPublish(merged[1])

----------------------------------------------------------------------------
(* SpecInitial: the first loop of write_logs (lines 191-193), which writes   *)
(* the entries of _run_initial_query, on query results whose names include   *)
(* different spellings of one package and NULLs.                             *)

InitInitial ==
    /\ initial_rows \in UNION {[1..k -> {"A", "a", "_", "-", Null}] :
                                    k \in 0..MaxInitialRows}
    /\ initial_pos = 0 /\ initial_seen = {}
    /\ initial_output = <<>>
    /\ upload_rows = <<>> /\ download_rows = <<>>
    /\ upload_pos = 0 /\ download_pos = 0
    /\ next_upload = None /\ next_download = None
    /\ merged = <<>> /\ unprocessed = <<>>
    /\ mpc = "idle" /\ wpc = "initial"
    /\ GoodbyeIdle
    /\ buf_size = SetMax(BufSizes)
    /\ CalledDirectly /\ OtherIdle

NextInitial == InitialStep \/ InitialEnd \/ InitialFail

SpecInitial == InitInitial /\ [][NextInitial]_vars

\* the lines of the initial-state log
InitialLines == FileLines(initial_output)

\* C30: the initial-state log holds at most one Publish per canonical
\* package id (exactly one for every id among the rows read so far, names
\* of the same id being written once), every event is a Publish with the
\* query start as timestamp, and rows with a NULL name give no event.
C30_InitialLog ==
    /\ \A i \in 1..Len(InitialLines) :
           /\ InitialLines[i][1] = "P"
           /\ InitialLines[i][2] # Null
           /\ InitialLines[i][2] = Canonicalize(InitialLines[i][2])
           /\ InitialLines[i][3] = FormatTimestamp(StartTime)
    /\ \A i, j \in 1..Len(InitialLines) :
           InitialLines[i][2] = InitialLines[j][2] => i = j
    /\ {InitialLines[i][2] : i \in 1..Len(InitialLines)} =
           {Canonicalize(initial_rows[k]) :
               k \in {r \in 1..initial_pos : initial_rows[r] # Null}}

\* two spellings of one package with a NULL row between them: one event
C30_Witness ==
    /\ initial_pos = 3
    /\ initial_rows = <<"A", Null, "a">>
    /\ InitialLines = <<PublishLine("a", FormatTimestamp(StartTime))>>

----------------------------------------------------------------------------
(* package-data.py: the script with its own PackageData class, fed one      *)
(* download at a time through parse_line and closed by finish_parsing.      *)

PD_SESSION_DURATION == 60    \* datetime.timedelta(minutes=1), in seconds

\* PackageData.__init__, lines 28-44; users_in_cur_session is a set at first
\* and a list from the first session on (line 65): it is held as a sequence
NewScriptData ==
    [start_time |-> None,
     end_time |-> None,
     dls_by_package |-> Counter(AggPackages),
     dls_by_user |-> Counter(AggUsers),
     dls_by_hour |-> Counter(HourKeys),
     dls_count |-> 0,
     sessions_by_user |-> Counter(AggUsers),
     sessions_by_hour |-> Counter(HourKeys),
     sessions_by_count |-> Counter(0..MaxDls),
     sessions_count |-> 0,
     cur_session_start |-> None,
     users_in_cur_session |-> <<>>,
     downloads_in_cur_session |-> 0]

\* line 70 looking at the last user of the list only
InUsersLastOnly(users, userid) == users # <<>> /\ users[Len(users)] = userid

\* line 70: userid in self.users_in_cur_session
InUsers(users, userid) == \E i \in 1..Len(users) : users[i] = userid

\* parse_line, lines 46-72
parse_line(d, userid, packageid, t) ==
    LET hour == HourOfWeek(t)
        \* lines 47-56
        d1 == [d EXCEPT !.start_time = IF @ = None THEN At(t) ELSE @,
                        !.end_time = At(t),
                        !.dls_by_package = Inc(@, packageid),
                        !.dls_by_user = Inc(@, userid),
                        !.dls_by_hour = Inc(@, hour),
                        !.dls_count = @ + 1]
        \* lines 58-66
        d2 == IF d1.cur_session_start = None
                 \/ d1.cur_session_start.t + PD_SESSION_DURATION < t
              THEN [d1 EXCEPT !.sessions_by_count =
                                  IF d1.cur_session_start # None
                                  THEN Inc(@, d1.downloads_in_cur_session) ELSE @,
                              !.cur_session_start = At(t),
                              !.sessions_count = @ + 1,
                              !.sessions_by_hour = Inc(@, hour),
                              !.users_in_cur_session = <<>>,
                              !.downloads_in_cur_session = 0]
              ELSE d1
        \* line 68
        d3 == [d2 EXCEPT !.downloads_in_cur_session = @ + 1]
    IN  \* lines 70-72
        IF ~InUsers(d3.users_in_cur_session, userid)
        THEN [d3 EXCEPT !.users_in_cur_session = Append(@, userid),
                        !.sessions_by_user = Inc(@, userid)]
        ELSE d3

\* finish_parsing, lines 75-77
finish_parsing(d) ==
    [d EXCEPT !.sessions_by_count = Inc(@, d.downloads_in_cur_session)]

\* lines 84-86: one line of the input is given to parse_line
ParseLine ==
    /\ pd_pc = "loop"
    /\ pd_pos < Len(agg_lines)
    /\ LET l == agg_lines[pd_pos + 1]
       IN  pd_data' = parse_line(pd_data, l.user, l.package, l.ts)
    /\ pd_pos' = pd_pos + 1
    /\ UNCHANGED pd_pc
    /\ UNCHANGED <<agg_lines, agg_pos, agg_pc, data>>
    /\ UNCHANGED logVars
    /\ UNCHANGED hackageVars
    /\ UNCHANGED trimVars

\* line 87: the input is exhausted, finish_parsing is called
FinishParsing ==
    /\ pd_pc = "loop"
    /\ pd_pos = Len(agg_lines)
    /\ pd_data' = finish_parsing(pd_data)
    /\ pd_pc' = "done"
    /\ UNCHANGED pd_pos
    /\ UNCHANGED <<agg_lines, agg_pos, agg_pc, data>>
    /\ UNCHANGED logVars
    /\ UNCHANGED hackageVars
    /\ UNCHANGED trimVars

\* SpecBoth: the same downloads, in any order of timestamps, are given to
\* handle_downloads of generate_package_data and to the script; the two
\* objects are separate and the two runs interleave freely.

InitBoth ==
    /\ MergeIdle /\ GoodbyeIdle /\ CalledDirectly
    /\ buf_size = SetMax(BufSizes)
    /\ HackageIdle /\ TrimIdle
    /\ agg_lines \in UNION {[1..k -> [user : AggUsers, package : AggPackages,
                                      ts : {0, 60, 61, 3630}]] :
                                 k \in 0..MaxDls}
    /\ agg_pos = 0 /\ agg_pc = "loop" /\ data = NewData
    /\ pd_pos = 0 /\ pd_pc = "loop" /\ pd_data = NewScriptData

NextBoth == HandleDownload \/ HandleDownloadsEnd \/ ParseLine \/ FinishParsing

SpecBoth == InitBoth /\ [][NextBoth]_vars

\* C31: once both implementations have consumed the same downloads and
\* closed the last session, they hold the same download counters, session
\* counters, sessions_count, dls_count, start_time and end_time.
C31_SameResults ==
    (agg_pc = "done" /\ pd_pc = "done") =>
        /\ pd_data.dls_by_package = data.dls_by_package
        /\ pd_data.dls_by_user = data.dls_by_user
        /\ pd_data.dls_by_hour = data.dls_by_hour
        /\ pd_data.dls_count = data.dls_count
        /\ pd_data.sessions_by_user = data.sessions_by_user
        /\ pd_data.sessions_by_hour = data.sessions_by_hour
        /\ pd_data.sessions_by_count = data.sessions_by_count
        /\ pd_data.sessions_count = data.sessions_count
        /\ pd_data.start_time = data.start_time
        /\ pd_data.end_time = data.end_time

\* both have finished on three downloads out of order: u and v, then u again
\* in the same session, then a download that opens a second session
C31_Witness ==
    /\ agg_pc = "done" /\ pd_pc = "done"
    /\ Len(agg_lines) = 3
    /\ agg_lines[1].user = "u" /\ agg_lines[1].ts = 60
    /\ agg_lines[2].user = "v" /\ agg_lines[2].ts = 0
    /\ agg_lines[3].user = "u" /\ agg_lines[3].ts = 3630
    /\ pd_data.sessions_count = 2
    /\ pd_data.sessions_by_count[2] = 1 /\ pd_data.sessions_by_count[1] = 1
    /\ pd_data.sessions_by_user["u"] = 2
    /\ pd_data.end_time = At(3630)

====
